---- MODULE Spec2Model ----
(***************************************************************************)
(* ChannelCreate (saleor/graphql/channel/mutations/channel_create.py).     *)
(*                                                                         *)
(* The store holds the Channel rows, the two many-to-many link tables      *)
(* (channel <-> shipping zone, channel <-> warehouse), the                 *)
(* TaxConfiguration rows and the channel_created events delivered so far.  *)
(* One mutation call is in flight at a time; pc is its position in         *)
(* ModelMutation.perform_mutation:                                         *)
(*   check_permissions -> clean_input -> save -> _save_m2m ->              *)
(*   post_save_action (TaxConfiguration, then channel_created) -> done.    *)
(*                                                                         *)
(* Python values: None is <<>>, any other value x is <<x>>; a dict is a    *)
(* function whose DOMAIN is the set of keys present.  The slug and         *)
(* stock_settings branches of clean_input (lines 166-170) touch fields no  *)
(* property below reads and are left out of the channel row.               *)
(***************************************************************************)
EXTENDS Integers, Sequences, FiniteSets, TLC

\* ---------------------------------------------------------------- bounds
MaxCalls == 2
MaxMinutes == 1

\* ------------------------------------------------------- python helpers
None == <<>>
Some(x) == <<x>>
EmptyDict == [k \in {} |-> None]
Get(d, k) == IF k \in DOMAIN d THEN d[k] ELSE None
Put(d, k, v) == [x \in (DOMAIN d) \cup {k} |-> IF x = k THEN v ELSE d[x]]
Restrict(d, D) == [k \in D |-> d[k]]
Range(s) == {s[i] : i \in 1..Len(s)}
\* truthiness of an optional dict, list, string
TruthyDict(v) == v # None /\ DOMAIN v[1] # {}
TruthyList(v) == v # None /\ Len(v[1]) > 0
TruthyStr(v) == v # None /\ v[1] # ""

\* ------------------------------------------------------- input universe
ShippingZoneIDs == {"sz1", "sz2"}
WarehouseIDs == {"wh1", "wh2"}
MarkAsPaidStrategyEnum == {"PAYMENT_FLOW", "TRANSACTION_FLOW"}
TransactionFlowStrategyEnum == {"AUTHORIZATION", "CHARGE"}
Minute == (-MaxMinutes)..MaxMinutes

Optional(S) == {None} \cup {Some(x) : x \in S}
\* lists of ids, repetitions included, no longer than the pool of ids
Lists(S) == UNION {[1..n -> S] : n \in 0..Cardinality(S)}

OrderSettingsKeys ==
    {"automatically_confirm_all_new_orders",
     "automatically_fulfill_non_shippable_gift_card",
     "expire_orders_after",
     "mark_as_paid_strategy",
     "default_transaction_flow_strategy"}

\* every OrderSettingsInput: each field omitted, null or a value
OrderSettingsInput ==
    {Restrict(full, D) :
        full \in [automatically_confirm_all_new_orders : Optional(BOOLEAN),
                  automatically_fulfill_non_shippable_gift_card : Optional(BOOLEAN),
                  expire_orders_after : Optional(Minute),
                  mark_as_paid_strategy : Optional(MarkAsPaidStrategyEnum),
                  default_transaction_flow_strategy : Optional(TransactionFlowStrategyEnum)],
        D \in SUBSET OrderSettingsKeys}

\* the OrderSettingsInput that clean_input rejects
RejectedOrderSettingsInput == {[expire_orders_after |-> Some(-MaxMinutes)]}

ChannelInputKeys == {"order_settings", "add_shipping_zones", "add_warehouses"}

\* ChannelCreateInput over the given order settings and id lists
ChannelCreateInput(settings, zoneLists, warehouseLists) ==
    {Restrict(full, D) :
        full \in [order_settings : Optional(settings),
                  add_shipping_zones : Optional(zoneLists),
                  add_warehouses : Optional(warehouseLists)],
        D \in SUBSET ChannelInputKeys}

\* a call sequence varies the id lists (its order settings are omitted, null or
\* rejected); a single call varies the order settings
SequenceInputs ==
    ChannelCreateInput(RejectedOrderSettingsInput,
                       Lists(ShippingZoneIDs), Lists(WarehouseIDs))
SettingsInputs ==
    {d \in ChannelCreateInput(OrderSettingsInput, {<<>>}, {<<>>}) :
        DOMAIN d \subseteq {"order_settings"}}

Requestors == {{}, {"MANAGE_CHANNELS"}}

\* ------------------------------------------------------------ the model
VARIABLES
    channels,            \* Channel rows: pk -> fields
    shipping_zones,      \* channel.shipping_zones links: <<channel pk, zone id>>
    warehouses,          \* channel.warehouses links: <<channel pk, warehouse id>>
    tax_configurations,  \* TaxConfiguration rows: the channel pk of each, in creation order
    events,              \* channel_created deliveries: the channel pk of each
    pc,                  \* position of the call in flight
    call,                \* number of calls started; the pk the call in flight saves under
    requestor,           \* permissions held by the requestor of the call in flight
    data,                \* the input argument of the call in flight
    cleaned_input,       \* what clean_input returned
    instance,            \* None, or Some(pk) once the instance is saved
    errors,              \* None, or Some(error) the call answered with
    snapshot             \* the store when the request's transaction began

vars == <<channels, shipping_zones, warehouses, tax_configurations, events,
          pc, call, requestor, data, cleaned_input, instance, errors, snapshot>>

Store ==
    [channels |-> channels, shipping_zones |-> shipping_zones,
     warehouses |-> warehouses, tax_configurations |-> tax_configurations]

EmptyStore ==
    [channels |-> EmptyDict, shipping_zones |-> {},
     warehouses |-> {}, tax_configurations |-> <<>>]

Error(field, code) == Some([field |-> field, code |-> code])

\* Meta without its permissions line
permissions_unset == {}
\* Meta.permissions
permissions == {"MANAGE_CHANNELS"}

\* BaseMutation.check_permissions: no permission required, or one of them held
check_permissions(held) == permissions = {} \/ (permissions \cap held) # {}

\* Channel field defaults, as the input descriptions give them
ChannelDefaults ==
    [automatically_confirm_all_new_orders |-> TRUE,
     automatically_fulfill_non_shippable_gift_card |-> TRUE,
     expire_orders_after |-> None,
     order_mark_as_paid_strategy |-> "PAYMENT_FLOW",
     default_transaction_flow_strategy |-> "CHARGE"]
NullableFields == {"expire_orders_after"}

\* ModelMutation.clean_input: every field the input supplies is copied
base_clean_input(d) == d

\* ModelMutation.construct_instance: a model field takes the cleaned value when
\* cleaned_input has the key; None on a non-nullable field means its default
construct_instance(cleaned) ==
    [f \in DOMAIN ChannelDefaults |->
        IF f \notin DOMAIN cleaned THEN ChannelDefaults[f]
        ELSE IF f \in NullableFields THEN cleaned[f]
        ELSE IF cleaned[f] = None THEN ChannelDefaults[f]
        ELSE cleaned[f][1]]

\* clean_expire_orders_after without its `< 0` branch
clean_expire_orders_after_no_check(expire_orders_after) ==
    IF expire_orders_after = None \/ expire_orders_after[1] = 0
    THEN [error |-> None, value |-> None]
    ELSE [error |-> None, value |-> expire_orders_after]
\* clean_expire_orders_after without `or expire_orders_after == 0`
clean_expire_orders_after_keep_zero(expire_orders_after) ==
    IF expire_orders_after = None
    THEN [error |-> None, value |-> None]
    ELSE IF expire_orders_after[1] < 0
    THEN [error |-> Error("expire_orders_after", "INVALID"), value |-> None]
    ELSE [error |-> None, value |-> expire_orders_after]
\* ChannelCreate.clean_expire_orders_after: the cleaned value, or the
\* ValidationError raised
clean_expire_orders_after(expire_orders_after) ==
    IF expire_orders_after = None \/ expire_orders_after[1] = 0
    THEN [error |-> None, value |-> None]
    ELSE IF expire_orders_after[1] < 0
    THEN [error |-> Error("expire_orders_after", "INVALID"), value |-> None]
    ELSE [error |-> None, value |-> expire_orders_after]

\* lines 172-178 with `if automatically_confirm_all_new_orders:` as the test
clean_automatically_confirm_truthy(cleaned, order_settings) ==
    LET automatically_confirm_all_new_orders ==
            Get(order_settings, "automatically_confirm_all_new_orders")
    IN  IF automatically_confirm_all_new_orders # None
           /\ automatically_confirm_all_new_orders[1]
        THEN Put(cleaned, "automatically_confirm_all_new_orders",
                 automatically_confirm_all_new_orders)
        ELSE cleaned
\* clean_input, lines 172-178
clean_automatically_confirm(cleaned, order_settings) ==
    LET automatically_confirm_all_new_orders ==
            Get(order_settings, "automatically_confirm_all_new_orders")
    IN  IF automatically_confirm_all_new_orders # None
        THEN Put(cleaned, "automatically_confirm_all_new_orders",
                 automatically_confirm_all_new_orders)
        ELSE cleaned

\* clean_input, lines 180-186
clean_automatically_fulfill(cleaned, order_settings) ==
    LET automatically_fulfill_non_shippable_gift_card ==
            Get(order_settings, "automatically_fulfill_non_shippable_gift_card")
    IN  IF automatically_fulfill_non_shippable_gift_card # None
        THEN Put(cleaned, "automatically_fulfill_non_shippable_gift_card",
                 automatically_fulfill_non_shippable_gift_card)
        ELSE cleaned

\* clean_input, lines 187-188
clean_mark_as_paid_strategy(cleaned, order_settings) ==
    LET mark_as_paid_strategy == Get(order_settings, "mark_as_paid_strategy")
    IN  IF TruthyStr(mark_as_paid_strategy)
        THEN Put(cleaned, "order_mark_as_paid_strategy", mark_as_paid_strategy)
        ELSE cleaned

\* clean_input, lines 195-200
clean_default_transaction_flow_strategy(cleaned, order_settings) ==
    LET default_transaction_strategy ==
            Get(order_settings, "default_transaction_flow_strategy")
    IN  IF TruthyStr(default_transaction_strategy)
        THEN Put(cleaned, "default_transaction_flow_strategy",
                 default_transaction_strategy)
        ELSE cleaned

\* ChannelCreate.clean_input: the cleaned input, or the ValidationError raised
clean_input(d) ==
    LET base == base_clean_input(d)
        order_settings == Get(base, "order_settings")
    IN  IF ~TruthyDict(order_settings)
        THEN [error |-> None, cleaned_input |-> base]
        ELSE
          LET os == order_settings[1]
              c1 == clean_automatically_confirm(base, os)
              c2 == clean_automatically_fulfill(c1, os)
              c3 == clean_mark_as_paid_strategy(c2, os)
              has_expire == "expire_orders_after" \in DOMAIN os
              expire == clean_expire_orders_after(os["expire_orders_after"])
          IN  IF has_expire /\ expire.error # None
              THEN [error |-> expire.error, cleaned_input |-> c3]
              ELSE
                LET c4 == IF has_expire
                          THEN Put(c3, "expire_orders_after", expire.value)
                          ELSE c3
                IN  [error |-> None,
                     cleaned_input |->
                        clean_default_transaction_flow_strategy(c4, os)]

\* ModelMutation.save: the instance is saved under a fresh pk
save(rows, pk, cleaned) == rows @@ (pk :> construct_instance(cleaned))

\* instance.<relation>.add(*objs): one link per distinct object
m2m_add(links, pk, objs) == links \cup {<<pk, o>> : o \in Range(objs)}

\* lines 223-225 with the list passed unstarred: only its first id is linked
add_shipping_zones_first(links, pk, cleaned_data) ==
    LET zones == Get(cleaned_data, "add_shipping_zones")
    IN  IF TruthyList(zones) THEN m2m_add(links, pk, <<zones[1][1]>>) ELSE links
\* _save_m2m, lines 223-225
add_shipping_zones(links, pk, cleaned_data) ==
    LET zones == Get(cleaned_data, "add_shipping_zones")
    IN  IF TruthyList(zones) THEN m2m_add(links, pk, zones[1]) ELSE links

\* _save_m2m, lines 226-228
add_warehouses(links, pk, cleaned_data) ==
    LET whs == Get(cleaned_data, "add_warehouses")
    IN  IF TruthyList(whs) THEN m2m_add(links, pk, whs[1]) ELSE links

\* traced_atomic_transaction: the block's writes, or none of them when it raises
traced_atomic_transaction(before, after, raised) == IF raised THEN before ELSE after

\* post_save_action without its TaxConfiguration line
TaxConfiguration_create_none(rows, pk) == rows
\* TaxConfiguration.objects.create(channel=instance)
TaxConfiguration_create(rows, pk) == Append(rows, pk)

\* cls.call_event(manager.channel_created, instance)
call_event(delivered, pk) == Append(delivered, pk)

\* no transaction around the request: what was written stays
rollback_keep(before, now) == now
\* the request's transaction rolls back: the store is what it was at its start
rollback(before, now) == before

Init ==
    /\ channels = EmptyDict
    /\ shipping_zones = {}
    /\ warehouses = {}
    /\ tax_configurations = <<>>
    /\ events = <<>>
    /\ pc = "idle"
    /\ call = 0
    /\ requestor = {}
    /\ data = EmptyDict
    /\ cleaned_input = EmptyDict
    /\ instance = None
    /\ errors = None
    /\ snapshot = EmptyStore

\* a request arrives: ChannelCreate.mutate is entered inside its transaction
Mutate(inputs) ==
    /\ pc = "idle"
    /\ call < MaxCalls
    /\ \E held \in Requestors, d \in inputs :
          /\ requestor' = held
          /\ data' = d
    /\ call' = call + 1
    /\ snapshot' = Store
    /\ pc' = "check_permissions"
    /\ UNCHANGED <<channels, shipping_zones, warehouses, tax_configurations,
                   events, cleaned_input, instance, errors>>

\* BaseMutation.mutate: PermissionDenied unless check_permissions passes
CheckPermissions ==
    /\ pc = "check_permissions"
    /\ IF check_permissions(requestor)
       THEN pc' = "clean_input" /\ UNCHANGED errors
       ELSE pc' = "done" /\ errors' = Error("", "PERMISSION_DENIED")
    /\ UNCHANGED <<channels, shipping_zones, warehouses, tax_configurations,
                   events, call, requestor, data, cleaned_input, instance, snapshot>>

\* perform_mutation: cleaned_input = cls.clean_input(info, instance, data);
\* a ValidationError becomes the call's error payload
CleanInput ==
    /\ pc = "clean_input"
    /\ LET r == clean_input(data)
       IN  IF r.error # None
           THEN pc' = "done" /\ errors' = r.error /\ UNCHANGED cleaned_input
           ELSE pc' = "save" /\ cleaned_input' = r.cleaned_input /\ UNCHANGED errors
    /\ UNCHANGED <<channels, shipping_zones, warehouses, tax_configurations,
                   events, call, requestor, data, instance, snapshot>>

\* perform_mutation: construct_instance, clean_instance, save.  clean_instance
\* may reject the instance (full_clean) before anything is written
Save ==
    /\ pc = "save"
    /\ \E valid \in BOOLEAN :
          IF valid
          THEN /\ channels' = save(channels, call, cleaned_input)
               /\ instance' = Some(call)
               /\ pc' = "_save_m2m"
               /\ UNCHANGED errors
          ELSE /\ errors' = Error("instance", "INVALID")
               /\ pc' = "done"
               /\ UNCHANGED <<channels, instance>>
    /\ UNCHANGED <<shipping_zones, warehouses, tax_configurations, events,
                   call, requestor, data, cleaned_input, snapshot>>

\* ChannelCreate._save_m2m: both adds inside one atomic block; either add may raise
SaveM2M ==
    /\ pc = "_save_m2m"
    /\ \E raised_at \in {"nowhere", "shipping_zones.add", "warehouses.add"} :
          LET zones == add_shipping_zones(shipping_zones, instance[1], cleaned_input)
              whs == add_warehouses(warehouses, instance[1], cleaned_input)
              raised == raised_at # "nowhere"
          IN  /\ shipping_zones' =
                    traced_atomic_transaction(shipping_zones, zones, raised)
              /\ warehouses' = traced_atomic_transaction(warehouses, whs, raised)
              /\ pc' = IF raised THEN "exception" ELSE "post_save_action"
    /\ UNCHANGED <<channels, tax_configurations, events, call, requestor, data,
                   cleaned_input, instance, errors, snapshot>>

\* ChannelCreate.post_save_action, line 232; the insert may raise
CreateTaxConfiguration ==
    /\ pc = "post_save_action"
    /\ \E raised \in BOOLEAN :
          IF raised
          THEN pc' = "exception" /\ UNCHANGED tax_configurations
          ELSE /\ tax_configurations' =
                     TaxConfiguration_create(tax_configurations, instance[1])
               /\ pc' = "call_event"
    /\ UNCHANGED <<channels, shipping_zones, warehouses, events, call, requestor,
                   data, cleaned_input, instance, errors, snapshot>>

\* channel_created dispatched as soon as the instance is saved, ahead of the
\* links and the TaxConfiguration
CallEventEarly ==
    /\ pc \in {"_save_m2m", "post_save_action", "call_event"}
    /\ events' = call_event(events, instance[1])
    /\ pc' = "done"
    /\ UNCHANGED <<channels, shipping_zones, warehouses, tax_configurations, call,
                   requestor, data, cleaned_input, instance, errors, snapshot>>

\* ChannelCreate.post_save_action, lines 233-234; the dispatch may raise.
\* On return the call has succeeded and its transaction commits
CallEvent ==
    /\ pc = "call_event"
    /\ \E raised \in BOOLEAN :
          IF raised
          THEN pc' = "exception" /\ UNCHANGED events
          ELSE events' = call_event(events, instance[1]) /\ pc' = "done"
    /\ UNCHANGED <<channels, shipping_zones, warehouses, tax_configurations, call,
                   requestor, data, cleaned_input, instance, errors, snapshot>>

\* an exception leaves the request: its transaction is rolled back
Rollback ==
    /\ pc = "exception"
    /\ LET s == rollback(snapshot, Store)
       IN  /\ channels' = s.channels
           /\ shipping_zones' = s.shipping_zones
           /\ warehouses' = s.warehouses
           /\ tax_configurations' = s.tax_configurations
    /\ errors' = Error("", "INTERNAL_SERVER_ERROR")
    /\ pc' = "done"
    /\ UNCHANGED <<events, call, requestor, data, cleaned_input, instance, snapshot>>

\* the response is sent; nothing of the call is kept
Return ==
    /\ pc = "done"
    /\ pc' = "idle"
    /\ requestor' = {}
    /\ data' = EmptyDict
    /\ cleaned_input' = EmptyDict
    /\ instance' = None
    /\ errors' = None
    /\ snapshot' = Store
    /\ UNCHANGED <<channels, shipping_zones, warehouses, tax_configurations,
                   events, call>>

MutateSequence == Mutate(SequenceInputs)

Next ==
    \/ MutateSequence
    \/ CheckPermissions
    \/ CleanInput
    \/ Save
    \/ SaveM2M
    \/ CreateTaxConfiguration
    \/ CallEvent
    \/ Rollback
    \/ Return

Spec == Init /\ [][Next]_vars

\* one call, its order settings drawn from every OrderSettingsInput
InitSettings ==
    /\ channels = EmptyDict
    /\ shipping_zones = {}
    /\ warehouses = {}
    /\ tax_configurations = <<>>
    /\ events = <<>>
    /\ pc = "check_permissions"
    /\ call = 1
    /\ requestor \in Requestors
    /\ data \in SettingsInputs
    /\ cleaned_input = EmptyDict
    /\ instance = None
    /\ errors = None
    /\ snapshot = EmptyStore

NextSettings ==
    \/ CheckPermissions
    \/ CleanInput
    \/ Save
    \/ SaveM2M
    \/ CreateTaxConfiguration
    \/ CallEvent
    \/ Rollback

SpecSettings == InitSettings /\ [][NextSettings]_vars

\* ----------------------------------------------------------- properties
Count(seq, x) == Cardinality({i \in 1..Len(seq) : seq[i] = x})
LinkedTo(links, pk) == {l[2] : l \in {m \in links : m[1] = pk}}
LinksOfOthers(links, pk) == {l \in links : l[1] # pk}
\* the order settings the call was given ({} when omitted or null)
GivenOrderSettings ==
    LET os == Get(data, "order_settings") IN IF os = None THEN EmptyDict ELSE os[1]
\* the ids a list argument names ({} when omitted, null or empty)
GivenIds(key) ==
    LET l == Get(data, key) IN IF l = None THEN {} ELSE Range(l[1])
\* clean_input has returned and the call has not ended
CleanInputReturned == pc \in {"save", "_save_m2m", "post_save_action", "call_event"}
Permitted == "MANAGE_CHANNELS" \in requestor
NegativeExpire ==
    /\ "expire_orders_after" \in DOMAIN GivenOrderSettings
    /\ GivenOrderSettings["expire_orders_after"] # None
    /\ GivenOrderSettings["expire_orders_after"][1] < 0
NothingCreated ==
    /\ Store = snapshot
    /\ call \notin DOMAIN channels
    /\ LinkedTo(shipping_zones, call) = {}
    /\ LinkedTo(warehouses, call) = {}
    /\ Count(tax_configurations, call) = 0
NotFired == Count(events, call) = 0

\* C1: a call whose orderSettings.expireOrdersAfter is negative never creates a
\* channel row, a link or a TaxConfiguration and never fires channel_created;
\* it ends with an error, and when it reached clean_input (the requestor holds
\* MANAGE_CHANNELS) the error is on expire_orders_after with code INVALID.
C1_NegativeExpireRejected ==
    (pc # "idle" /\ NegativeExpire) =>
        /\ NothingCreated
        /\ NotFired
        /\ instance = None
        /\ pc \in {"check_permissions", "clean_input", "done"}
        /\ pc = "done" => errors # None
        /\ (pc = "done" /\ Permitted) =>
                errors = Error("expire_orders_after", "INVALID")

C1_Witness ==
    /\ pc = "done"
    /\ NegativeExpire
    /\ Permitted
    /\ errors = Error("expire_orders_after", "INVALID")
    /\ NothingCreated

\* C2: when orderSettings carries expireOrdersAfter, null and 0 are cleaned to
\* null and a positive value is kept, and the saved channel has that value;
\* when the key is absent clean_input sets no expire_orders_after entry.
C2_ExpireOrdersAfterCleaned ==
    CleanInputReturned =>
        LET supplied == "expire_orders_after" \in DOMAIN GivenOrderSettings
            v == GivenOrderSettings["expire_orders_after"]
        IN  /\ supplied =>
                /\ "expire_orders_after" \in DOMAIN cleaned_input
                /\ (v = None \/ v[1] = 0) =>
                        cleaned_input["expire_orders_after"] = None
                /\ (v # None /\ v[1] > 0) =>
                        cleaned_input["expire_orders_after"] = v
                /\ instance # None =>
                        channels[call].expire_orders_after =
                            cleaned_input["expire_orders_after"]
            /\ ~supplied => "expire_orders_after" \notin DOMAIN cleaned_input

C2_Witness ==
    /\ pc = "call_event"
    /\ "expire_orders_after" \in DOMAIN GivenOrderSettings
    /\ GivenOrderSettings["expire_orders_after"] = Some(0)
    /\ channels[call].expire_orders_after = None

\* C3: channel_created is fired at most once per call, and only at the moment
\* the channel row is saved, its shipping zones and warehouses are linked and
\* its one TaxConfiguration exists; the call that fired it ends without error,
\* and a call that ended with an error has fired nothing.
C3_EventFiredAfterward ==
    /\ []((pc = "done" /\ errors # None) => NotFired)
    /\ [][events' # events =>
            /\ events' = Append(events, call)
            /\ NotFired
            /\ instance = Some(call)
            /\ call \in DOMAIN channels
            /\ LinkedTo(shipping_zones, call) = GivenIds("add_shipping_zones")
            /\ LinkedTo(warehouses, call) = GivenIds("add_warehouses")
            /\ Count(tax_configurations, call) = 1
            /\ pc' = "done"
            /\ errors' = None
            /\ Store' = Store]_vars

C3_Witness ==
    /\ pc = "done"
    /\ errors = None
    /\ events = <<1, 2>>
    /\ Count(tax_configurations, call) = 1

\* C4: between calls, every channel row has exactly one TaxConfiguration and
\* every TaxConfiguration refers to a channel row that exists.
C4_OneTaxConfigurationPerChannel ==
    pc \in {"idle", "done"} =>
        /\ \A pk \in DOMAIN channels : Count(tax_configurations, pk) = 1
        /\ \A i \in 1..Len(tax_configurations) :
                tax_configurations[i] \in DOMAIN channels

C4_Witness ==
    /\ pc = "idle"
    /\ call = 2
    /\ DOMAIN channels = {2}
    /\ tax_configurations = <<2>>

\* C5: after a successful call the new channel is linked to exactly the ids of
\* addShippingZones and of addWarehouses (none when the list is omitted, null
\* or empty) and the links of the other channels are as before the call.
C5_LinksAsGiven ==
    (pc = "done" /\ errors = None) =>
        /\ LinkedTo(shipping_zones, call) = GivenIds("add_shipping_zones")
        /\ LinkedTo(warehouses, call) = GivenIds("add_warehouses")
        /\ LinksOfOthers(shipping_zones, call) = snapshot.shipping_zones
        /\ LinksOfOthers(warehouses, call) = snapshot.warehouses

C5_Witness ==
    /\ pc = "done"
    /\ errors = None
    /\ call = 2
    /\ snapshot.shipping_zones = {<<1, "sz2">>}
    /\ Get(data, "add_shipping_zones") = Some(<<"sz1", "sz2">>)
    /\ "add_warehouses" \notin DOMAIN data
    /\ shipping_zones = {<<1, "sz2">>, <<2, "sz1">>, <<2, "sz2">>}
    /\ warehouses = snapshot.warehouses

C7_PermissionRequired ==
    (pc # "idle" /\ ~Permitted) => (NothingCreated /\ NotFired /\ instance = None)

C7_Witness ==
    /\ pc = "done"
    /\ ~Permitted
    /\ errors = Error("", "PERMISSION_DENIED")
    /\ GivenIds("add_warehouses") # {}
    /\ DOMAIN channels = {1}

\* the channel field each optional order setting is stored under
ChannelField(setting) ==
    IF setting = "mark_as_paid_strategy" THEN "order_mark_as_paid_strategy" ELSE setting

\* C8: for each of the four optional order settings, a non-null value (false
\* included) is put in cleaned_input under the setting's channel field and the
\* saved channel carries it; when the setting is omitted or null, or
\* orderSettings is, no entry is set and the saved channel has the default.
C8_OptionalSettingsCarried ==
    CleanInputReturned =>
        \A setting \in OrderSettingsKeys \ {"expire_orders_after"} :
            LET v == Get(GivenOrderSettings, setting)
                f == ChannelField(setting)
            IN  /\ v # None =>
                    /\ f \in DOMAIN cleaned_input
                    /\ cleaned_input[f] = v
                    /\ instance # None => channels[call][f] = v[1]
                /\ v = None =>
                    /\ f \notin DOMAIN cleaned_input
                    /\ instance # None => channels[call][f] = ChannelDefaults[f]

C8_Witness ==
    /\ pc = "call_event"
    /\ Get(GivenOrderSettings, "automatically_confirm_all_new_orders") = Some(FALSE)
    /\ Get(GivenOrderSettings, "mark_as_paid_strategy") = Some("TRANSACTION_FLOW")
    /\ "automatically_fulfill_non_shippable_gift_card" \notin DOMAIN GivenOrderSettings
    /\ channels[call].automatically_confirm_all_new_orders = FALSE
    /\ channels[call].order_mark_as_paid_strategy = "TRANSACTION_FLOW"
    /\ channels[call].automatically_fulfill_non_shippable_gift_card = TRUE

====
